---- MODULE Spec2Model ----
(***************************************************************************)
(* Latent dynamics planning: the training script, the EMA shadow encoder,  *)
(* the inverse dynamics model (IDM) and its labelling entry points, the    *)
(* vision encoder's construction and shapes, the causal mask and the       *)
(* training-time patch keep/drop of                                        *)
(* "Latent Dynamics Planning/LatentDynamicsReferenceClasses.py".           *)
(***************************************************************************)
EXTENDS Integers, Sequences, FiniteSets, TLC

(* ------------------------------ bounds -------------------------------- *)
\* cfg.stage1.steps is drawn from 1..MaxTotalSteps
MaxTotalSteps == 2
\* a batch's observation sequence holds 2..MaxObsLen frames
MaxObsLen == 3
\* a TensorDict holds 1..MaxRows rows
MaxRows == 2
\* IDM token counts (min_tokens, max_tokens, num_eval_tokens) are drawn from 1..MaxTok
MaxTok == 2
\* update_ema is called up to MaxEmaCalls times on drawn parameter values
MaxEmaCalls == 1
\* VisionEncoder arguments: img_size in 1..MaxImg, patch_size in 1..MaxPatch,
\* embed_dim in 1..MaxEmbed, depth in 1..MaxDepth, num_heads in 1..MaxHeads
MaxImg == 6
MaxPatch == 3
MaxEmbed == 8
MaxDepth == 2
MaxHeads == 4
\* the schedule is evaluated for total_steps in 1..MaxSchedSteps
MaxSchedSteps == 14
\* batch sizes of the tensor-level calls are drawn from 1..MaxBatch
MaxBatch == 2
\* a context has 1..MaxPatches patches
MaxPatches == 3

(* ------------------------- program constants -------------------------- *)
\* IDM.__init__ defaults, used by create_dynamics_models
DefaultMinTokens == 2
DefaultMaxTokens == 10
DefaultNumEvalTokens == 10
\* start_momentum = 0.99 as the fraction MomentumNum / MomentumDen
MomentumNum == 99
MomentumDen == 100

VARIABLES
    \* --- the training script ---
    pc,            \* statement of the script about to run ("api": no script, calls come from outside)
    step,          \* the for loop's index
    total_steps,   \* cfg.stage1.steps
    last_epoch,    \* scheduler.last_epoch
    training,      \* nn.Module.training of each module
    batch,         \* the TensorDict being labelled
    value,         \* every parameter's data, a fraction <<numerator, denominator>>
    grad,          \* every parameter's .grad: <<>> is None, <<g>> a gradient
    writer,        \* history: the operation that last wrote each parameter's data
    ops,           \* history: the statements completed in the current training step
    ema_count,     \* history: completed update_ema calls
    opt_count,     \* history: completed optimizer steps
    target_ema,    \* history: ema_count when the forward model's target was last computed
    ema_pre,       \* history: value just before the last update_ema call
    ema_m,         \* history: momentum of the last update_ema call
    \* --- the IDM object and the call in progress ---
    idm,           \* the IDM's fields min_tokens, max_tokens, num_eval_tokens
    ipc,           \* position inside the IDM call in progress
    caller,        \* the entry point that called IDM.forward
    x_before,      \* forward's first argument
    x_after,       \* forward's second argument
    num_tokens,    \* forward's local num_tokens
    step_i,        \* forward's loop counter
    tgt_so_far,    \* forward's growing target sequence
    out_tokens,    \* forward's list of actions
    enc_calls,     \* history: the training flag of each _encode_vision_context call of this forward call
    result,        \* forward's returned TensorDict
    last_call,     \* history: the images the last labelling entry point passed on
    chunksize,     \* label_chunked's argument
    chunk_i,       \* label_chunked: index of the chunk being labelled
    out_dicts,     \* label_chunked's list of per-chunk results
    \* --- a VisionEncoder being constructed and called ---
    enc_cfg,       \* the constructor's arguments
    enc_obj,       \* the constructed object's fields, or the assertion raised
    enc_fwd,       \* the last forward call: input batch size and output shape
    \* --- one decode step's masks and decoder pass ---
    msk_in,        \* target length, two target sequences, memory size, decoder layers
    msk_out,       \* the masks built and what each output position was computed from
    \* --- one _encode_vision_context call ---
    ctx_in,        \* batch size, patches, depth, top_pct and the training flag
    ctx_out,       \* top_k, the drawn indices, the after branch and the context
    \* --- one evaluation of the learning-rate schedule ---
    lr_in,         \* total_steps and the step index lr_lambda is called with
    lr_out         \* lr_lambda's return value and the learning rate LambdaLR sets from it

trainVars == <<pc, step, total_steps, last_epoch, value, grad, writer, ops,
               ema_count, opt_count, target_ema, ema_pre, ema_m>>
fwdVars == <<x_before, x_after, num_tokens, step_i, tgt_so_far, out_tokens,
             enc_calls, result>>
idmVars == <<idm, ipc, caller, fwdVars, last_call, chunksize, chunk_i, out_dicts>>
pureVars == <<enc_cfg, enc_obj, enc_fwd, msk_in, msk_out, ctx_in, ctx_out, lr_in, lr_out>>
vars == <<trainVars, training, batch, idmVars, pureVars>>

(* ------------------------------ helpers ------------------------------- *)
Range(s) == {s[i] : i \in 1..Len(s)}
Max(a, b) == IF a >= b THEN a ELSE b
Abs(a) == IF a < 0 THEN -a ELSE a

RECURSIVE GCD(_, _)
GCD(a, b) == IF b = 0 THEN a ELSE GCD(b, a % b)

\* Real numbers are fractions <<n, d>> in lowest terms, d > 0.
Frac(n, d) ==
    LET g == GCD(Abs(n), d) IN IF g = 0 THEN <<0, 1>> ELSE <<n \div g, d \div g>>
FracMul(a, b) == Frac(a[1] * b[1], a[2] * b[2])
FracAdd(a, b) ==
    LET g == GCD(a[2], b[2])
        l == (a[2] \div g) * b[2]
    IN Frac(a[1] * (l \div a[2]) + b[1] * (l \div b[2]), l)
FracOneMinus(m) == Frac(m[2] - m[1], m[2])

(* ---------------------- modules and parameters ------------------------ *)
Modules == {"idm", "wm", "encoder", "ema_encoder"}

\* IDM and WorldModel both hold the shared encoder and its EMA copy as submodules.
Children(m) == IF m \in {"idm", "wm"} THEN {"encoder", "ema_encoder"} ELSE {}

\* nn.Module.train(mode) / eval(): the module and all its submodules.
ModuleTrain(tr, m, mode) ==
    [x \in Modules |-> IF x = m \/ x \in Children(m) THEN mode ELSE tr[x]]

\* encoder.parameters(), in registration order
EncoderParameters == << <<"encoder", "patch_embed">>, <<"encoder", "encoder_layers">> >>
\* ema_encoder = copy.deepcopy(encoder): the same parameters in the same order, own storage
EmaParameters ==
    [i \in 1..Len(EncoderParameters) |-> <<"ema_encoder", EncoderParameters[i][2]>>]
IdmOwnParameters ==
    {<<"idm", "transformer">>, <<"idm", "mask_token">>, <<"idm", "drop_token">>,
     <<"idm", "action_head">>}
WmOwnParameters == {<<"wm", "action_encoder">>, <<"wm", "decoder">>}

Parameters(m) ==
    CASE m = "encoder" -> Range(EncoderParameters)
      [] m = "ema_encoder" -> Range(EmaParameters)
      [] m = "idm" -> IdmOwnParameters \cup Range(EncoderParameters) \cup Range(EmaParameters)
      [] m = "wm" -> WmOwnParameters \cup Range(EncoderParameters) \cup Range(EmaParameters)

AllParameters == Parameters("idm") \cup Parameters("wm")

get_unique_params(model1, model2) == Parameters(model1) \cup Parameters(model2)

\* the parameter list the AdamW optimizer is built from
OptimizerParams == get_unique_params("idm", "wm")

\* p.requires_grad after construction: only the EMA copy is frozen
RequiresGrad(p) == p[1] # "ema_encoder"

\* The leaves of the loss's autograd graph in a training step: IDM.forward runs
\* the online encoder, its tokens, decoder and head with gradients recorded;
\* WorldModel runs action_encoder and decoder with gradients and the EMA
\* encoder only under torch.no_grad().
LossGraphParams ==
    IdmOwnParameters \cup Range(EncoderParameters) \cup WmOwnParameters

\* loss.backward() leaves a gradient on p
ReceivesGradAll(p) == TRUE
ReceivesGrad(p) == RequiresGrad(p) /\ p \in LossGraphParams

\* optimizer.step() updates p: AdamW skips a parameter whose .grad is None
StepsParam(p) == p \in OptimizerParams /\ grad[p] # <<>>

\* the gradients a backward pass may leave
GradValues == {-1, 1}

Momentum == Frac(MomentumNum, MomentumDen)

\* ema_param.data.mul_(momentum).add_(param.data * (1 - momentum))
ema_interpolate_swapped(shadow, online, m) ==
    FracAdd(FracMul(online, m), FracMul(shadow, FracOneMinus(m)))
ema_interpolate(shadow, online, m) ==
    FracAdd(FracMul(shadow, m), FracMul(online, FracOneMinus(m)))

\* zip(ema_encoder.parameters(), encoder.parameters())
EmaZip == {<<EmaParameters[i], EncoderParameters[i]>> : i \in 1..Len(EmaParameters)}

update_ema(val, m) ==
    [p \in DOMAIN val |->
        IF \E z \in EmaZip : z[1] = p
        THEN LET z == CHOOSE z \in EmaZip : z[1] = p
             IN ema_interpolate(val[z[1]], val[z[2]], m)
        ELSE val[p]]

(* ------------------------- the training script ------------------------ *)
train_step_swapped ==
    <<"idm.train", "wm.train", "next_batch", "idm.label", "wm.label", "zero_grad",
      "backward", "update_ema", "optimizer.step", "logger", "cleanup">>
\* the statements of train_step, in program order
train_step ==
    <<"idm.train", "wm.train", "next_batch", "idm.label", "wm.label", "zero_grad",
      "backward", "optimizer.step", "update_ema", "logger", "cleanup">>

\* the statement after s: train_step returns to the loop body's scheduler.step()
NextStmt(s) ==
    LET i == CHOOSE i \in 1..Len(train_step) : train_step[i] = s
    IN IF i < Len(train_step) THEN train_step[i + 1] ELSE "scheduler.step"

\* statement s of the script completes
Advance(s) ==
    /\ pc' = IF pc = s THEN NextStmt(s) ELSE pc
    /\ ops' = IF pc = s THEN Append(ops, s) ELSE ops

\* A TensorDict: "obs" holds obs_len frames for each of its rows; "la" (and in
\* evaluation mode "la_flat") appear once it is labelled, for the rows la_rows.
NoBatch ==
    [obs_len |-> 0, rows |-> <<>>, has_la |-> FALSE, la |-> <<>>, la_rows |-> <<>>,
     has_la_flat |-> FALSE]
NewBatch(T, n) ==
    [obs_len |-> T, rows |-> [r \in 1..n |-> r], has_la |-> FALSE, la |-> <<>>,
     la_rows |-> <<>>, has_la_flat |-> FALSE]

\* for step in range(cfg.stage1.steps + 1): train_step(step)
ForLoop ==
    /\ pc = "for"
    /\ IF step < total_steps + 1
       THEN pc' = train_step[1] /\ ops' = <<>>
       ELSE pc' = "done" /\ ops' = ops
    /\ UNCHANGED <<step, total_steps, last_epoch, value, grad, writer, ema_count,
                   opt_count, target_ema, ema_pre, ema_m, training, batch, idmVars, pureVars>>

\* m.train() / m.eval(); in the script idm.train() and wm.train()
ModuleSetMode(m, mode) ==
    /\ \/ pc = "api" /\ ipc = "idle"
       \/ pc = "idm.train" /\ m = "idm" /\ mode
       \/ pc = "wm.train" /\ m = "wm" /\ mode
    /\ training' = ModuleTrain(training, m, mode)
    /\ Advance(IF m = "idm" THEN "idm.train" ELSE "wm.train")
    /\ UNCHANGED <<step, total_steps, last_epoch, value, grad, writer, ema_count,
                   opt_count, target_ema, ema_pre, ema_m, batch, idmVars, pureVars>>

\* batch = next(train_iter)
NextBatch ==
    /\ pc = "next_batch"
    /\ \E T \in 2..MaxObsLen, n \in 1..MaxRows : batch' = NewBatch(T, n)
    /\ Advance("next_batch")
    /\ UNCHANGED <<step, total_steps, last_epoch, value, grad, writer, ema_count,
                   opt_count, target_ema, ema_pre, ema_m, training, idmVars, pureVars>>

\* optimizer.zero_grad()
ZeroGrad ==
    /\ pc = "zero_grad"
    /\ grad' = [p \in AllParameters |-> IF p \in OptimizerParams THEN <<>> ELSE grad[p]]
    /\ Advance("zero_grad")
    /\ UNCHANGED <<step, total_steps, last_epoch, value, writer, ema_count,
                   opt_count, target_ema, ema_pre, ema_m, training, batch, idmVars, pureVars>>

\* loss.backward()
Backward ==
    /\ pc = "backward"
    /\ \E g \in GradValues :
         grad' = [p \in AllParameters |->
                    IF ReceivesGrad(p)
                    THEN IF grad[p] = <<>> THEN <<g>> ELSE <<grad[p][1] + g>>
                    ELSE grad[p]]
    /\ Advance("backward")
    /\ UNCHANGED <<step, total_steps, last_epoch, value, writer, ema_count,
                   opt_count, target_ema, ema_pre, ema_m, training, batch, idmVars, pureVars>>

\* optimizer.step(): every parameter it holds that has a gradient moves against it
OptimizerStep ==
    /\ pc = "optimizer.step"
    /\ value' = [p \in AllParameters |->
                   IF StepsParam(p) THEN FracAdd(value[p], Frac(-grad[p][1], 1))
                   ELSE value[p]]
    /\ writer' = [p \in AllParameters |->
                    IF StepsParam(p) THEN "optimizer.step" ELSE writer[p]]
    /\ opt_count' = opt_count + 1
    /\ Advance("optimizer.step")
    /\ UNCHANGED <<step, total_steps, last_epoch, grad, ema_count, target_ema,
                   ema_pre, ema_m, training, batch, idmVars, pureVars>>

\* wm.update_ema(m): as a statement of train_step with m = start_momentum
UpdateEma(m) ==
    /\ value' = update_ema(value, m)
    /\ writer' = [p \in AllParameters |->
                    IF \E z \in EmaZip : z[1] = p THEN "update_ema" ELSE writer[p]]
    /\ ema_count' = ema_count + 1
    /\ ema_pre' = value
    /\ ema_m' = m
    /\ Advance("update_ema")
    /\ UNCHANGED <<step, total_steps, last_epoch, grad, opt_count, target_ema,
                   training, batch, idmVars, pureVars>>

UpdateEmaStmt == pc = "update_ema" /\ UpdateEma(Momentum)

\* the logging of train_step: print and logger(...) read state and write none
Logger ==
    /\ pc = "logger"
    /\ Advance("logger")
    /\ UNCHANGED <<step, total_steps, last_epoch, value, grad, writer, ema_count,
                   opt_count, target_ema, ema_pre, ema_m, training, batch, idmVars, pureVars>>

\* del batch, loss, wm_loss; wm.zero_grad(); idm.zero_grad()
Cleanup ==
    /\ pc = "cleanup"
    /\ batch' = NoBatch
    /\ grad' = [p \in AllParameters |->
                  IF p \in Parameters("wm") \cup Parameters("idm") THEN <<>> ELSE grad[p]]
    /\ Advance("cleanup")
    /\ UNCHANGED <<step, total_steps, last_epoch, value, writer, ema_count,
                   opt_count, target_ema, ema_pre, ema_m, training, idmVars, pureVars>>

\* a loop body that steps the scheduler twice
SchedulerStepTwice ==
    /\ pc = "scheduler.step"
    /\ last_epoch' = last_epoch + 2
    /\ step' = step + 1
    /\ pc' = "for"
    /\ ops' = Append(ops, "scheduler.step")
    /\ UNCHANGED <<total_steps, value, grad, writer, ema_count, opt_count,
                   target_ema, ema_pre, ema_m, training, batch, idmVars, pureVars>>

\* scheduler.step(), then the loop takes its next index
SchedulerStep ==
    /\ pc = "scheduler.step"
    /\ last_epoch' = last_epoch + 1
    /\ step' = step + 1
    /\ pc' = "for"
    /\ ops' = Append(ops, "scheduler.step")
    /\ UNCHANGED <<total_steps, value, grad, writer, ema_count, opt_count,
                   target_ema, ema_pre, ema_m, training, batch, idmVars, pureVars>>

(* ------------------------------ the IDM ------------------------------- *)
\* An image batch: frame t (1-based) of the observation sequence, for some rows.
NoImage == [t |-> 0, rows |-> <<>>, normalized |-> FALSE]

\* b["obs"][:, offset] with a negative Python offset, restricted to rows
ObsAt(b, rows, offset) == [t |-> b.obs_len + 1 + offset, rows |-> rows, normalized |-> FALSE]

normalize_obs(img) == [img EXCEPT !.normalized = TRUE]

\* data.split(chunksize): consecutive chunks of at most c rows, in order
NumChunks(rows, c) == (Len(rows) + c - 1) \div c
Split(rows, c) ==
    [k \in 1..NumChunks(rows, c) |->
        SubSeq(rows, (k - 1) * c + 1, IF k * c < Len(rows) THEN k * c ELSE Len(rows))]

\* torch.randint(low=min_tokens, high=max_tokens + 1): the counts it may return
TokenDrawsWide(lo, hi) == lo..(hi + 1)
TokenDraws(lo, hi) == lo..hi

MaskToken == [kind |-> "mask_token", pos |-> 0]
NoResult == [ok |-> FALSE, la |-> <<>>, has_la_flat |-> FALSE]
NoCall == [entry |-> "none", before |-> NoImage, after |-> NoImage]

FwdReset ==
    /\ x_before' = NoImage
    /\ x_after' = NoImage
    /\ num_tokens' = 0
    /\ step_i' = 0
    /\ tgt_so_far' = <<>>
    /\ out_tokens' = <<>>
    /\ enc_calls' = <<>>
    /\ result' = NoResult

\* IDM.forward up to its decode loop: the branch on self.training, num_tokens,
\* in evaluation mode the one context encoding, and the initial target sequence
ForwardBegin ==
    /\ ipc = "forward"
    /\ IF ~training["idm"]
       THEN /\ num_tokens' = idm.num_eval_tokens
            /\ enc_calls' = <<FALSE>>
            /\ tgt_so_far' = <<MaskToken>>
            /\ ipc' = "eval_loop"
       ELSE IF idm.min_tokens > idm.max_tokens
            THEN \* torch.randint raises: low must be below high
                 /\ ipc' = "raised_randint"
                 /\ UNCHANGED <<num_tokens, enc_calls, tgt_so_far>>
            ELSE /\ \E n \in TokenDraws(idm.min_tokens, idm.max_tokens) : num_tokens' = n
                 /\ enc_calls' = <<>>
                 /\ tgt_so_far' = <<MaskToken>>
                 /\ ipc' = "train_loop"
    /\ step_i' = 0
    /\ out_tokens' = <<>>
    /\ UNCHANGED <<trainVars, training, batch, idm, pureVars, caller, x_before, x_after, result,
                   last_call, chunksize, chunk_i, out_dicts>>

\* one iteration of the loop with the context of an earlier iteration reused
DecodeStepCached ==
    /\ ipc \in {"eval_loop", "train_loop"}
    /\ step_i < num_tokens
    /\ enc_calls' = IF ipc = "train_loop" /\ enc_calls = <<>> THEN <<TRUE>> ELSE enc_calls
    /\ LET T == Len(tgt_so_far)
           last_token == [kind |-> "decoder_out", pos |-> T]
           action == [kind |-> "action", pos |-> T]
       IN /\ out_tokens' = Append(out_tokens, action)
          /\ tgt_so_far' = Append(tgt_so_far, last_token)
    /\ step_i' = step_i + 1
    /\ UNCHANGED <<trainVars, training, batch, idm, pureVars, ipc, caller, x_before, x_after,
                   num_tokens, result, last_call, chunksize, chunk_i, out_dicts>>

\* one iteration of the loop that feeds the action vector back as the next target
DecodeStepFeedsAction ==
    /\ ipc \in {"eval_loop", "train_loop"}
    /\ step_i < num_tokens
    /\ enc_calls' = IF ipc = "train_loop" THEN Append(enc_calls, TRUE) ELSE enc_calls
    /\ LET T == Len(tgt_so_far)
           action == [kind |-> "action", pos |-> T]
       IN /\ out_tokens' = Append(out_tokens, action)
          /\ tgt_so_far' = Append(tgt_so_far, action)
    /\ step_i' = step_i + 1
    /\ UNCHANGED <<trainVars, training, batch, idm, pureVars, ipc, caller, x_before, x_after,
                   num_tokens, result, last_call, chunksize, chunk_i, out_dicts>>

\* one iteration of for step_i in range(num_tokens)
DecodeStep ==
    /\ ipc \in {"eval_loop", "train_loop"}
    /\ step_i < num_tokens
    /\ enc_calls' = IF ipc = "train_loop" THEN Append(enc_calls, TRUE) ELSE enc_calls
    /\ LET T == Len(tgt_so_far)
           last_token == [kind |-> "decoder_out", pos |-> T]
           action == [kind |-> "action", pos |-> T]
       IN /\ out_tokens' = Append(out_tokens, action)
          /\ tgt_so_far' = Append(tgt_so_far, last_token)
    /\ step_i' = step_i + 1
    /\ UNCHANGED <<trainVars, training, batch, idm, pureVars, ipc, caller, x_before, x_after,
                   num_tokens, result, last_call, chunksize, chunk_i, out_dicts>>

\* the loop ends: la = torch.cat(out_tokens, dim=1) and the TensorDict is returned
ForwardReturn ==
    /\ ipc \in {"eval_loop", "train_loop"}
    /\ step_i >= num_tokens
    /\ IF out_tokens = <<>>
       THEN \* torch.cat of an empty list raises
            /\ ipc' = "raised_cat_empty"
            /\ result' = result
       ELSE /\ ipc' = "returned"
            /\ result' = [ok |-> TRUE, la |-> out_tokens, has_la_flat |-> ipc = "eval_loop"]
    /\ UNCHANGED <<trainVars, training, batch, idm, pureVars, caller, x_before, x_after, num_tokens,
                   step_i, tgt_so_far, out_tokens, enc_calls, last_call, chunksize,
                   chunk_i, out_dicts>>

\* IDM.label(batch) up to its call of self(x_before, x_after)
CallIdmLabel ==
    /\ ipc = "idle"
    /\ pc \in {"api", "idm.label"}
    /\ batch.obs_len >= 2
    /\ x_before' = ObsAt(batch, batch.rows, -2)
    /\ x_after' = ObsAt(batch, batch.rows, -1)
    /\ last_call' = [entry |-> "IDM.label", before |-> x_before', after |-> x_after']
    /\ caller' = "label"
    /\ ipc' = "forward"
    /\ UNCHANGED <<trainVars, training, batch, idm, pureVars, num_tokens, step_i, tgt_so_far,
                   out_tokens, enc_calls, result, chunksize, chunk_i, out_dicts>>

\* IDM.label after the call: batch.update(action_dict)
LabelReturn ==
    /\ ipc = "returned"
    /\ caller = "label"
    /\ batch' = [batch EXCEPT !.has_la = TRUE, !.la = result.la, !.la_rows = x_before.rows,
                              !.has_la_flat = @ \/ result.has_la_flat]
    /\ ipc' = "idle"
    /\ caller' = "none"
    /\ FwdReset
    /\ Advance("idm.label")
    /\ UNCHANGED <<step, total_steps, last_epoch, value, grad, writer, ema_count,
                   opt_count, target_ema, ema_pre, ema_m, training, idm, pureVars, last_call,
                   chunksize, chunk_i, out_dicts>>

\* _label(data_batch) of label_chunked up to its call of self(before_obs, after_obs)
ChunkCall(rows) ==
    LET after_obs == normalize_obs(ObsAt(batch, rows, -2))
        before_obs == normalize_obs(ObsAt(batch, rows, -1))
    IN /\ x_before' = before_obs
       /\ x_after' = after_obs
       /\ last_call' = [entry |-> "IDM.label_chunked", before |-> before_obs,
                        after |-> after_obs]
       /\ ipc' = "forward"

\* IDM.label_chunked(data, chunksize) up to the first chunk's forward call
CallLabelChunked(c) ==
    /\ ipc = "idle"
    /\ pc = "api"
    /\ batch.obs_len >= 2
    /\ training' = [training EXCEPT !["encoder"] = FALSE]
    /\ chunksize' = c
    /\ chunk_i' = 1
    /\ out_dicts' = <<>>
    /\ caller' = "label_chunked"
    /\ ChunkCall(Split(batch.rows, c)[1])
    /\ UNCHANGED <<trainVars, batch, idm, pureVars, num_tokens, step_i, tgt_so_far, out_tokens,
                   enc_calls, result>>

\* a chunk's forward call returned: out_dicts.append; then the next chunk, or
\* after the last one torch.cat(out_dicts) and data.update
ChunkReturn ==
    /\ ipc = "returned"
    /\ caller = "label_chunked"
    /\ LET od == Append(out_dicts,
                        [rows |-> x_before.rows, la |-> result.la,
                         has_la_flat |-> result.has_la_flat, enc_calls |-> enc_calls])
           chunks == Split(batch.rows, chunksize)
       IN /\ IF chunk_i < Len(chunks)
             THEN /\ out_dicts' = od
                  /\ chunk_i' = chunk_i + 1
                  /\ ChunkCall(chunks[chunk_i + 1])
                  /\ UNCHANGED <<batch, caller, chunksize, num_tokens, step_i,
                                 tgt_so_far, out_tokens, enc_calls, result>>
             ELSE IF \A i \in 1..Len(od) : Len(od[i].la) = Len(od[1].la)
                  THEN /\ batch' = [batch EXCEPT
                                      !.has_la = TRUE, !.la = od[1].la,
                                      !.la_rows = [r \in 1..Len(batch.rows) |->
                                                     LET k == (r - 1) \div chunksize + 1
                                                     IN od[k].rows[r - (k - 1) * chunksize]],
                                      !.has_la_flat = @ \/ od[1].has_la_flat]
                       /\ ipc' = "idle"
                       /\ caller' = "none"
                       /\ FwdReset
                       /\ chunksize' = 0
                       /\ chunk_i' = 0
                       /\ out_dicts' = <<>>
                       /\ UNCHANGED last_call
                  ELSE \* torch.cat: the chunks' token counts differ
                       /\ ipc' = "raised_cat_chunks"
                       /\ out_dicts' = od
                       /\ UNCHANGED <<batch, caller, fwdVars, chunksize, chunk_i, last_call>>
    /\ UNCHANGED <<trainVars, training, idm, pureVars>>

\* WorldModel.label(batch): the prediction from the before image and the
\* EMA target from the after image, under the current EMA parameters
WmLabel ==
    /\ ipc = "idle"
    /\ pc \in {"api", "wm.label"}
    /\ batch.obs_len >= 2
    /\ IF ~batch.has_la
       THEN \* batch["la"] raises KeyError
            /\ ipc' = "raised_KeyError"
            /\ UNCHANGED <<last_call, target_ema, pc, ops>>
       ELSE /\ last_call' = [entry |-> "WorldModel.label",
                             before |-> ObsAt(batch, batch.rows, -2),
                             after |-> ObsAt(batch, batch.rows, -1)]
            /\ target_ema' = ema_count
            /\ ipc' = ipc
            /\ Advance("wm.label")
    /\ UNCHANGED <<step, total_steps, last_epoch, value, grad, writer, ema_count,
                   opt_count, ema_pre, ema_m, training, batch, idm, pureVars, caller, fwdVars,
                   chunksize, chunk_i, out_dicts>>

(* ------------------------- the vision encoder ------------------------- *)
\* Tensor shapes are sequences of dimension sizes; dims are 0-based as in torch.
Unsqueeze(shape, dim) ==
    SubSeq(shape, 1, dim) \o <<1>> \o SubSeq(shape, dim + 1, Len(shape))
Flatten2(shape) == <<shape[1], shape[2], shape[3] * shape[4]>>
Transpose12(shape) == <<shape[1], shape[3], shape[2]>> \o SubSeq(shape, 4, Len(shape))

RECURSIVE SumDim(_, _)
SumDim(shapes, d) ==
    IF shapes = <<>> THEN 0 ELSE Head(shapes)[d] + SumDim(Tail(shapes), d)

\* torch.cat(tensors, dim): <<>> stands for the error it raises on an empty
\* list or on tensors that differ in another dimension
Cat(shapes, dim) ==
    IF shapes = <<>> THEN <<>>
    ELSE IF \E i \in 1..Len(shapes) :
               \/ Len(shapes[i]) # Len(shapes[1])
               \/ \E d \in 1..Len(shapes[1]) : d # dim + 1 /\ shapes[i][d] # shapes[1][d]
         THEN <<>>
         ELSE [d \in 1..Len(shapes[1]) |->
                  IF d = dim + 1 THEN SumDim(shapes, d) ELSE shapes[1][d]]

\* a + b with broadcasting over equal-rank shapes; <<>> when they do not broadcast
BroadcastAdd(a, b) ==
    IF Len(a) # Len(b) \/ \E d \in 1..Len(a) : a[d] # b[d] /\ a[d] # 1 /\ b[d] # 1
    THEN <<>>
    ELSE [d \in 1..Len(a) |-> Max(a[d], b[d])]

\* nn.Conv2d(in_chans, out_channels, kernel_size, stride) on a [B, C, H, W] input
Conv2dShape(x, out_channels, kernel, stride) ==
    <<x[1], out_channels, (x[3] - kernel) \div stride + 1, (x[4] - kernel) \div stride + 1>>

NoError == "ok"

\* _get_1d_sincos_pos_embed(embed_dim, pos) for n positions
get_1d_sincos_pos_embed(embed_dim, n) ==
    IF embed_dim % 2 # 0
    THEN [err |-> "Embed dimension must be even for sine and cosine.", shape |-> <<>>]
    ELSE LET omega == embed_dim \div 2
             emb_sin == <<n, omega>>
             emb_cos == <<n, omega>>
         IN [err |-> NoError, shape |-> Cat(<<emb_sin, emb_cos>>, 1)]

\* _get_2d_sincos_pos_embed(embed_dim, grid_size)
get_2d_sincos_pos_embed(embed_dim, grid_size) ==
    IF embed_dim % 2 # 0
    THEN [err |-> "Embed dimension must be even for sine and cosine.", shape |-> <<>>]
    ELSE LET n == grid_size * grid_size
             pos_h == get_1d_sincos_pos_embed(embed_dim \div 2, n)
             pos_w == get_1d_sincos_pos_embed(embed_dim \div 2, n)
         IN IF pos_h.err # NoError THEN pos_h
            ELSE [err |-> NoError, shape |-> Cat(<<pos_h.shape, pos_w.shape>>, 1)]

\* assert img_size % patch_size == 0
ImgDivisibleUnchecked(img_size, patch_size) == TRUE
ImgDivisible(img_size, patch_size) == img_size % patch_size = 0

\* nn.TransformerEncoderLayer(d_model, nhead): its attention asserts that the
\* head count divides d_model
HeadsDivide(d_model, nhead) == d_model % nhead = 0

NoEncoder ==
    [state |-> "none", err |-> NoError, num_patches |-> 0, grid_size |-> 0,
     pos_embed |-> <<>>]
EncRaised(msg) ==
    [state |-> "raised", err |-> msg, num_patches |-> 0, grid_size |-> 0,
     pos_embed |-> <<>>]

\* VisionEncoder.__init__
VisionEncoderInit(cfg) ==
    IF ~ImgDivisible(cfg.img_size, cfg.patch_size)
    THEN EncRaised("Image size must be divisible by patch size.")
    ELSE LET grid_size == cfg.img_size \div cfg.patch_size
             pos == get_2d_sincos_pos_embed(cfg.embed_dim, grid_size)
         IN IF pos.err # NoError THEN EncRaised(pos.err)
            ELSE IF ~HeadsDivide(cfg.embed_dim, cfg.num_heads)
                 THEN EncRaised("embed_dim must be divisible by num_heads")
                 ELSE [state |-> "constructed", err |-> NoError,
                       num_patches |-> grid_size * grid_size, grid_size |-> grid_size,
                       pos_embed |-> Unsqueeze(pos.shape, 0)]

\* patch_and_embed(x): conv, flatten(2), transpose(1, 2), + pos_embed
patch_and_embed(cfg, obj, x) ==
    LET conv == Conv2dShape(x, cfg.embed_dim, cfg.patch_size, cfg.patch_size)
    IN BroadcastAdd(Transpose12(Flatten2(conv)), obj.pos_embed)

\* run_transformer(x): every layer keeps x's shape; the outputs are
\* unsqueezed at dim 1 and concatenated there
run_transformer_last(x, depth) == Unsqueeze(x, 1)
run_transformer(x, depth) == Cat([l \in 1..depth |-> Unsqueeze(x, 1)], 1)

\* VisionEncoder.forward on an input of shape x; <<>> when an operation raises
VisionEncoderForward(cfg, obj, x) ==
    LET e == patch_and_embed(cfg, obj, x)
    IN IF e = <<>> THEN <<>> ELSE run_transformer(e, cfg.depth)

InChans == 3

NoForward == [state |-> "none", B |-> 0, shape |-> <<>>]

Construct ==
    /\ enc_obj.state = "none"
    /\ enc_obj' = VisionEncoderInit(enc_cfg)
    /\ UNCHANGED <<trainVars, training, batch, idmVars, enc_cfg, enc_fwd, msk_in,
                   msk_out, ctx_in, ctx_out, lr_in, lr_out>>

EncForward(B) ==
    /\ enc_obj.state = "constructed"
    /\ enc_fwd.state = "none"
    /\ LET out == VisionEncoderForward(enc_cfg, enc_obj,
                                       <<B, InChans, enc_cfg.img_size, enc_cfg.img_size>>)
       IN enc_fwd' = [state |-> IF out = <<>> THEN "raised" ELSE "returned", B |-> B,
                      shape |-> out]
    /\ UNCHANGED <<trainVars, training, batch, idmVars, enc_cfg, enc_obj, msk_in,
                   msk_out, ctx_in, ctx_out, lr_in, lr_out>>

(* ------------------- causal mask and decoder pass --------------------- *)
NegInf == "-inf"

\* torch.full((size, size), v) and torch.ones(L, L)
Full(size, v) == [i \in 1..size |-> [j \in 1..size |-> v]]

\* torch.triu(M, diagonal): entries with j - i >= diagonal are kept, the rest are zero
Triu(M, diagonal) ==
    [i \in 1..Len(M) |-> [j \in 1..Len(M[i]) |-> IF j - i >= diagonal THEN M[i][j] ELSE "0"]]

\* IDM._make_causal_mask(size): the float mask added to the attention scores
make_causal_mask_leaky(size) == Triu(Full(size, NegInf), 2)
make_causal_mask(size) == Triu(Full(size, NegInf), 1)

\* generate_causal_mask(L): the same pattern as a bool mask
generate_causal_mask(L) ==
    LET m == Triu(Full(L, "1"), 1)
    IN [i \in 1..L |-> [j \in 1..L |-> m[i][j] # "0"]]

\* a score of -inf gives the key weight zero in the softmax
Attends(mask, i, j) == mask[i][j] # NegInf

\* One decoder layer: position i's output is computed from its own input (the
\* residual path), from the inputs of the positions its mask row lets it attend
\* to, and from every memory patch (no memory_mask is passed).
DecoderLayer(h, mask, P) ==
    [i \in 1..Len(h) |->
        [res |-> h[i],
         self |-> {<<j, h[j]>> : j \in {k \in 1..Len(h) : Attends(mask, i, k)}},
         mem |-> 1..P]]

\* transformer.decoder(tgt, memory, tgt_mask) with the given number of layers
RECURSIVE DecoderOut(_, _, _, _)
DecoderOut(tgt, mask, P, layers) ==
    IF layers = 0 THEN tgt
    ELSE DecoderLayer(DecoderOut(tgt, mask, P, layers - 1), mask, P)

TokenValues == {"u", "v"}

\* one decode step on msk_in.tgt and, with the same mask and memory, on msk_in.tgt2
DecodePass ==
    /\ ~msk_out.done
    /\ msk_in.T > 0
    /\ LET T == Len(msk_in.tgt)
           causal_mask == make_causal_mask(T)
           out == DecoderOut(msk_in.tgt, causal_mask, msk_in.P, msk_in.layers)
       IN msk_out' = [done |-> TRUE, mask |-> causal_mask,
                      bool_mask |-> generate_causal_mask(T),
                      out |-> out,
                      out2 |-> DecoderOut(msk_in.tgt2, causal_mask, msk_in.P, msk_in.layers),
                      mem_seen |-> [i \in 1..T |-> out[i].mem]]
    /\ UNCHANGED <<trainVars, training, batch, idmVars, enc_cfg, enc_obj, enc_fwd, msk_in,
                   ctx_in, ctx_out, lr_in, lr_out>>

(* ----------------------- vision context encoding ----------------------- *)
\* the values self.top_pct is drawn from, as <<numerator, denominator>>; 1/10 is
\* the constructor's default
TopPcts == {<<1, 10>>, <<1, 2>>, <<3, 4>>}

\* max(1, int(P * self.top_pct))
TopK(P, top_pct) == Max(1, (P * top_pct[1]) \div top_pct[2])

\* rand_vals.topk(top_k, largest=False): per sample top_k distinct positions, in
\* the order of their random values
TopkIndices(B, P, top_k) ==
    [1..B -> {ix \in [1..top_k -> 1..P] : \A i, j \in 1..top_k : i # j => ix[i] # ix[j]}]

\* torch.arange(P).unsqueeze(0).expand(B, -1)
Arange(B, P) == [b \in 1..B |-> [p \in 1..P |-> p]]

NoPatch == [img |-> "none", b |-> 0, patch |-> 0, aug |-> FALSE]

\* encoder.patch_and_embed(x): [B, P] patch embeddings; each carries the position
\* of the patch it was cut from
PatchTokens(img, B, P, aug) ==
    [b \in 1..B |-> [p \in 1..P |-> [img |-> img, b |-> b, patch |-> p, aug |-> aug]]]

\* encoder.run_transformer(x) on [B, n] tokens: [B, D, n]; the output for a token
\* at layer d is computed from that token in the context of the sample's n tokens
\* (ctx: the positions of the patches they were cut from)
run_transformer_tokens(x, depth) ==
    [b \in 1..Len(x) |-> [d \in 1..depth |-> [k \in 1..Len(x[b]) |->
        [kind |-> "enc", from |-> x[b][k], layer |-> d, ctx |-> {x[b][j].patch : j \in 1..Len(x[b])}]]]]

\* .transpose(1, 2) of [B, D, n] gives [B, n, D]; the reshape keeps that shape
TransposeLayers(enc, n, depth) ==
    [b \in 1..Len(enc) |-> [k \in 1..n |-> [d \in 1..depth |-> enc[b][d][k]]]]

\* torch.gather(after_patch, 1, idxs...)
Gather(x, idxs) == [b \in 1..Len(x) |-> [k \in 1..Len(idxs[b]) |-> x[b][idxs[b][k]]]]

\* self.drop_token[0, 0].reshape(depth, embed_dim)
DropToken(depth) ==
    [d \in 1..depth |-> [kind |-> "drop", from |-> NoPatch, layer |-> d, ctx |-> {}]]

\* drop_token_reshaped.expand(B, P, depth, embed_dim).clone()
Expand(tok, B, P) == [b \in 1..B |-> [p \in 1..P |-> tok]]

\* full_after.scatter_(1, idxs..., after_ctx_kept): full[b][idxs[b][k]] = src[b][k]
ScatterFront(full, idxs, srcv) ==
    [b \in 1..Len(full) |-> [p \in 1..Len(full[b]) |->
        IF p <= Len(idxs[b]) THEN srcv[b][p] ELSE full[b][p]]]
Scatter(full, idxs, srcv) ==
    [b \in 1..Len(full) |-> [p \in 1..Len(full[b]) |->
        IF \E k \in 1..Len(idxs[b]) : idxs[b][k] = p
        THEN srcv[b][CHOOSE k \in 1..Len(idxs[b]) : idxs[b][k] = p]
        ELSE full[b][p]]]

\* torch.stack([before_ctx, after_ctx], dim=3).reshape(B, P, depth * 2, embed_dim):
\* row-major, so block 2(d-1)+1 is before_ctx[..d] and block 2(d-1)+2 is after_ctx[..d]
InterleaveConcat(before_ctx, after_ctx, depth) ==
    [b \in 1..Len(before_ctx) |-> [p \in 1..Len(before_ctx[b]) |->
        [c \in 1..(2 * depth) |->
            IF c <= depth THEN before_ctx[b][p][c] ELSE after_ctx[b][p][c - depth]]]]
Interleave(before_ctx, after_ctx, depth) ==
    [b \in 1..Len(before_ctx) |-> [p \in 1..Len(before_ctx[b]) |->
        [c \in 1..(2 * depth) |->
            IF c % 2 = 1 THEN before_ctx[b][p][(c + 1) \div 2]
            ELSE after_ctx[b][p][c \div 2]]]]

\* IDM._encode_vision_context(x_before, x_after, training); each local of the
\* method is bound once, in the method's order
EncodeVisionContext ==
    /\ ~ctx_out.done
    /\ ctx_in.B > 0
    /\ LET B == ctx_in.B
           P == ctx_in.P
           depth == ctx_in.depth
           aug == ctx_in.training
           top_k == IF ctx_in.training THEN TopK(P, ctx_in.top_pct) ELSE P
       IN \E before_patch \in {PatchTokens("before", B, P, aug)},
             after_patch \in {PatchTokens("after", B, P, aug)},
             idxs \in IF ctx_in.training THEN TopkIndices(B, P, top_k) ELSE {Arange(B, P)} :
          \E before_enc \in {run_transformer_tokens(before_patch, depth)},
             after_patch_kept \in {IF ctx_in.training THEN Gather(after_patch, idxs)
                                   ELSE after_patch} :
          \E before_ctx \in {TransposeLayers(before_enc, P, depth)},
             after_enc \in {run_transformer_tokens(after_patch_kept, depth)} :
          \E after_ctx_kept \in {TransposeLayers(after_enc, top_k, depth)},
             full_after \in {Expand(DropToken(depth), B, P)} :
          \E after_ctx \in {IF ctx_in.training THEN Scatter(full_after, idxs, after_ctx_kept)
                            ELSE after_ctx_kept} :
              ctx_out' = [done |-> TRUE, top_k |-> top_k, idxs |-> idxs,
                          after_ctx |-> after_ctx,
                          src |-> Interleave(before_ctx, after_ctx, depth),
                          augmented |-> aug]
    /\ UNCHANGED <<trainVars, training, batch, idmVars, enc_cfg, enc_obj, enc_fwd, msk_in,
                   msk_out, ctx_in, lr_in, lr_out>>

(* ---------------------- learning-rate schedule ------------------------ *)
\* learning rates in units of 1e-7
INITIAL_LR == 1
PEAK_LR == 1000
FINAL_LR == 300

FracSub(a, b) == FracAdd(a, <<-b[1], b[2]>>)
FracDiv(a, b) == Frac(a[1] * b[2], a[2] * b[1])
FracLeq(a, b) == a[1] * b[2] <= b[1] * a[2]

\* cosines are kept to four decimals: CosScale stands for 1
CosScale == 10000

\* CosPiTable[q][k + 1] is cos(pi * k / q), k in 0..q
CosPiTable ==
    <<
       <<10000, -10000>>,
       <<10000, 0, -10000>>,
       <<10000, 5000, -5000, -10000>>,
       <<10000, 7071, 0, -7071, -10000>>,
       <<10000, 8090, 3090, -3090, -8090, -10000>>,
       <<10000, 8660, 5000, 0, -5000, -8660, -10000>>,
       <<10000, 9010, 6235, 2225, -2225, -6235, -9010, -10000>>,
       <<10000, 9239, 7071, 3827, 0, -3827, -7071, -9239, -10000>>,
       <<10000, 9397, 7660, 5000, 1736, -1736, -5000, -7660, -9397, -10000>>,
       <<10000, 9511, 8090, 5878, 3090, 0, -3090, -5878, -8090, -9511, -10000>>,
       <<10000, 9595, 8413, 6549, 4154, 1423, -1423, -4154, -6549, -8413, -9595, -10000>>,
       <<10000, 9659, 8660, 7071, 5000, 2588, 0, -2588, -5000, -7071, -8660, -9659, -10000>>,
       <<10000, 9709, 8855, 7485, 5681, 3546, 1205, -1205, -3546, -5681, -7485, -8855, -9709, -10000>>,
       <<10000, 9749, 9010, 7818, 6235, 4339, 2225, 0, -2225, -4339, -6235, -7818, -9010, -9749, -10000>>,
       <<10000, 9781, 9135, 8090, 6691, 5000, 3090, 1045, -1045, -3090, -5000, -6691, -8090, -9135, -9781, -10000>>,
       <<10000, 9808, 9239, 8315, 7071, 5556, 3827, 1951, 0, -1951, -3827, -5556, -7071, -8315, -9239, -9808, -10000>>
    >>

\* math.cos(math.pi * x) for x = k / q >= 0: cos(pi * x) has period 2 and
\* cos(pi * x) = cos(pi * (2 - x))
CosPi(k, q) ==
    LET r == k % (2 * q)
    IN Frac(IF r <= q THEN CosPiTable[q][r + 1] ELSE CosPiTable[q][2 * q - r + 1], CosScale)

\* int(0.15 * total_steps); the float product truncates as 15 * total_steps / 100
\* does for the values of total_steps drawn
warmup_steps(T) == (15 * T) \div 100

\* 0.5 * (1 + math.cos(math.pi * progress + math.pi)), progress = k / q
cosine_decay_unshifted(k, q) == FracMul(<<1, 2>>, FracAdd(<<1, 1>>, CosPi(k, q)))
cosine_decay(k, q) == FracMul(<<1, 2>>, FracAdd(<<1, 1>>, CosPi(k + q, q)))

\* lr_lambda(step) with the script's total_steps = T
lr_lambda(s, T) ==
    LET w == warmup_steps(T)
    IN IF s < w
       THEN FracAdd(FracMul(FracDiv(<<PEAK_LR - INITIAL_LR, 1>>, <<INITIAL_LR, 1>>),
                            Frac(s, w)),
                    <<1, 1>>)
       ELSE FracDiv(FracAdd(<<PEAK_LR, 1>>,
                            FracMul(<<FINAL_LR - PEAK_LR, 1>>, cosine_decay(s - w, T - w))),
                    <<INITIAL_LR, 1>>)

\* LambdaLR: the optimizer's lr is its initial lr times lr_lambda(last_epoch)
LambdaLR(s, T) == FracMul(<<INITIAL_LR, 1>>, lr_lambda(s, T))

\* one query of the schedule
LrLambdaCall ==
    /\ ~lr_out.done
    /\ lr_in.total_steps > 0
    /\ lr_out' = [done |-> TRUE, lambda |-> lr_lambda(lr_in.step, lr_in.total_steps),
                  lr |-> LambdaLR(lr_in.step, lr_in.total_steps)]
    /\ UNCHANGED <<trainVars, training, batch, idmVars, enc_cfg, enc_obj, enc_fwd, msk_in,
                   msk_out, ctx_in, ctx_out, lr_in>>

(* --------------------------- specifications --------------------------- *)
\* weights after construction; the EMA copy starts equal to the encoder
InitWeight(p) ==
    CASE p[2] = "patch_embed" -> Frac(1, 1)
      [] p[2] = "encoder_layers" -> Frac(2, 1)
      [] OTHER -> Frac(0, 1)

IdmIdle ==
    /\ ipc = "idle"
    /\ caller = "none"
    /\ x_before = NoImage
    /\ x_after = NoImage
    /\ num_tokens = 0
    /\ step_i = 0
    /\ tgt_so_far = <<>>
    /\ out_tokens = <<>>
    /\ enc_calls = <<>>
    /\ result = NoResult
    /\ last_call = NoCall
    /\ chunksize = 0
    /\ chunk_i = 0
    /\ out_dicts = <<>>

TrainFresh ==
    /\ step = 0
    /\ last_epoch = 0
    /\ grad = [p \in AllParameters |-> <<>>]
    /\ writer = [p \in AllParameters |-> "init"]
    /\ ops = <<>>
    /\ ema_count = 0
    /\ opt_count = 0
    /\ target_ema = 0
    /\ ema_pre = value
    /\ ema_m = Momentum

NoCfg == [img_size |-> 0, patch_size |-> 0, embed_dim |-> 0, depth |-> 0, num_heads |-> 0]
NoMaskIn == [T |-> 0, tgt |-> <<>>, tgt2 |-> <<>>, P |-> 0, layers |-> 0]
NoMaskOut == [done |-> FALSE, mask |-> <<>>, bool_mask |-> <<>>, out |-> <<>>, out2 |-> <<>>,
              mem_seen |-> <<>>]
NoCtxIn == [B |-> 0, P |-> 0, depth |-> 0, top_pct |-> <<0, 1>>, training |-> FALSE]
NoCtxOut == [done |-> FALSE, top_k |-> 0, idxs |-> <<>>, after_ctx |-> <<>>, src |-> <<>>,
             augmented |-> FALSE]
NoLrIn == [total_steps |-> 0, step |-> 0]
NoLrOut == [done |-> FALSE, lambda |-> <<0, 1>>, lr |-> <<0, 1>>]

EncIdle == enc_cfg = NoCfg /\ enc_obj = NoEncoder /\ enc_fwd = NoForward
MaskIdle == msk_in = NoMaskIn /\ msk_out = NoMaskOut
CtxIdle == ctx_in = NoCtxIn /\ ctx_out = NoCtxOut
LrIdle == lr_in = NoLrIn /\ lr_out = NoLrOut

\* the models as create_dynamics_models builds them, nothing run yet
ScriptIdle ==
    /\ total_steps = 1
    /\ training = [m \in Modules |-> TRUE]
    /\ batch = NoBatch
    /\ value = [p \in AllParameters |-> InitWeight(p)]
    /\ TrainFresh
    /\ idm = [min_tokens |-> DefaultMinTokens, max_tokens |-> DefaultMaxTokens,
              num_eval_tokens |-> DefaultNumEvalTokens]
    /\ IdmIdle

\* The script: models built by create_dynamics_models with the IDM's default
\* token counts, optimizer and scheduler constructed, about to enter the loop.
Init ==
    /\ pc = "for"
    /\ total_steps \in 1..MaxTotalSteps
    /\ training = [m \in Modules |-> TRUE]
    /\ batch = NoBatch
    /\ value = [p \in AllParameters |-> InitWeight(p)]
    /\ TrainFresh
    /\ idm = [min_tokens |-> DefaultMinTokens, max_tokens |-> DefaultMaxTokens,
              num_eval_tokens |-> DefaultNumEvalTokens]
    /\ IdmIdle
    /\ EncIdle /\ MaskIdle /\ CtxIdle /\ LrIdle

Next ==
    \/ ForLoop
    \/ ModuleSetMode("idm", TRUE)
    \/ ModuleSetMode("wm", TRUE)
    \/ NextBatch
    \/ CallIdmLabel
    \/ ForwardBegin
    \/ DecodeStep
    \/ ForwardReturn
    \/ LabelReturn
    \/ WmLabel
    \/ ZeroGrad
    \/ Backward
    \/ OptimizerStep
    \/ UpdateEmaStmt
    \/ Logger
    \/ Cleanup
    \/ SchedulerStep

Spec == Init /\ [][Next]_vars

\* the script's control position: its statement, the position inside the IDM
\* call in progress and that call's loop counter; every action of Next moves it
control == <<pc, ipc, step_i>>

Statements == Range(train_step) \cup {"for", "scheduler.step", "done"}
Positions ==
    {"idle", "forward", "eval_loop", "train_loop", "returned", "raised_randint",
     "raised_cat_empty", "raised_cat_chunks", "raised_KeyError"}

\* control moves on before the loop has ended
Proceeds ==
    /\ pc # "done"
    /\ pc' \in Statements
    /\ ipc' \in Positions
    /\ step_i' \in {0, step_i, step_i + 1}

\* The script under the interpreter's scheduling: it is one sequential thread, so
\* until the loop has ended the statement it is at eventually completes and
\* control moves on (by [][Next]_vars, a step that moves control is a step of
\* Next, and every step of Next moves control).
SpecFair == Spec /\ WF_control(Proceeds)

\* The labelling entry points called from outside on an IDM built with drawn
\* token counts, in whatever mode earlier train()/eval() calls left it.
InitLabel ==
    /\ pc = "api"
    /\ total_steps = 1
    /\ training = [m \in Modules |-> TRUE]
    /\ \E T \in 2..MaxObsLen, n \in 1..MaxRows : batch = NewBatch(T, n)
    /\ value = [p \in AllParameters |-> InitWeight(p)]
    /\ TrainFresh
    /\ idm \in [min_tokens : 1..MaxTok, max_tokens : 1..MaxTok, num_eval_tokens : 1..MaxTok]
    /\ IdmIdle
    /\ EncIdle /\ MaskIdle /\ CtxIdle /\ LrIdle

NextLabel ==
    \/ \E mode \in BOOLEAN : ModuleSetMode("idm", mode)
    \/ CallIdmLabel
    \/ \E c \in 1..MaxRows : CallLabelChunked(c)
    \/ ForwardBegin
    \/ DecodeStep
    \/ ForwardReturn
    \/ LabelReturn
    \/ ChunkReturn
    \/ WmLabel

SpecLabel == InitLabel /\ [][NextLabel]_vars

\* update_ema(m) applied to drawn encoder and EMA parameter values
ShadowValues == {Frac(-1, 1), Frac(0, 1), Frac(1, 2), Frac(2, 1)}
OnlineValues == {Frac(-1, 1), Frac(1, 1), Frac(2, 1)}
Momenta == {Frac(0, 1), Frac(1, 2), Frac(9, 10), Frac(1, 1)}

IndexIn(seq, x) == CHOOSE i \in 1..Len(seq) : seq[i] = x

InitEma ==
    /\ pc = "ema"
    /\ total_steps = 1
    /\ training = [m \in Modules |-> TRUE]
    /\ batch = NoBatch
    /\ value \in {[p \in AllParameters |->
                     IF p \in Range(EmaParameters) THEN sh[IndexIn(EmaParameters, p)]
                     ELSE IF p \in Range(EncoderParameters)
                          THEN on[IndexIn(EncoderParameters, p)]
                          ELSE Frac(0, 1)] :
                  sh \in [1..Len(EmaParameters) -> ShadowValues],
                  on \in [1..Len(EncoderParameters) -> OnlineValues]}
    /\ TrainFresh
    /\ idm = [min_tokens |-> DefaultMinTokens, max_tokens |-> DefaultMaxTokens,
              num_eval_tokens |-> DefaultNumEvalTokens]
    /\ IdmIdle
    /\ EncIdle /\ MaskIdle /\ CtxIdle /\ LrIdle

UpdateEmaCall ==
    /\ pc = "ema"
    /\ ema_count < MaxEmaCalls
    /\ \E m \in Momenta : UpdateEma(m)

NextEma == UpdateEmaCall

SpecEma == InitEma /\ [][NextEma]_vars

\* A VisionEncoder constructed from drawn arguments and called on a batch of
\* img_size x img_size images.
InitEnc ==
    /\ pc = "encoder"
    /\ ScriptIdle
    /\ enc_cfg \in [img_size : 1..MaxImg, patch_size : 1..MaxPatch, embed_dim : 1..MaxEmbed,
                    depth : 1..MaxDepth, num_heads : 1..MaxHeads]
    /\ enc_obj = NoEncoder
    /\ enc_fwd = NoForward
    /\ MaskIdle /\ CtxIdle /\ LrIdle

NextEnc ==
    \/ Construct
    \/ \E B \in 1..MaxBatch : EncForward(B)

SpecEnc == InitEnc /\ [][NextEnc]_vars

\* One decoder pass of the decode loop, on two target sequences of the same
\* length T = len(tgt_so_far) <= MaxTok + 1.
InitMask ==
    /\ pc = "decoder"
    /\ ScriptIdle
    /\ EncIdle /\ CtxIdle /\ LrIdle
    /\ \E T \in 1..(MaxTok + 1), P \in 1..MaxPatches, layers \in 1..MaxDepth :
          \E tgt \in [1..T -> TokenValues], tgt2 \in [1..T -> TokenValues] :
              msk_in = [T |-> T, tgt |-> tgt, tgt2 |-> tgt2, P |-> P, layers |-> layers]
    /\ msk_out = NoMaskOut

NextMask == DecodePass

SpecMask == InitMask /\ [][NextMask]_vars

\* One call of IDM._encode_vision_context on a batch of B image pairs of P
\* patches each, by an encoder of the given depth.
InitCtx ==
    /\ pc = "context"
    /\ ScriptIdle
    /\ EncIdle /\ MaskIdle /\ LrIdle
    /\ \E B \in 1..MaxBatch, P \in 1..MaxPatches, depth \in 1..MaxDepth,
          top_pct \in TopPcts, mode \in BOOLEAN :
          ctx_in = [B |-> B, P |-> P, depth |-> depth, top_pct |-> top_pct, training |-> mode]
    /\ ctx_out = NoCtxOut

NextCtx == EncodeVisionContext

SpecCtx == InitCtx /\ [][NextCtx]_vars

\* The schedule queried at one step index, as the scheduler does at construction
\* (index 0) and after every training step (indices 1..total_steps + 1).
InitLr ==
    /\ pc = "schedule"
    /\ ScriptIdle
    /\ EncIdle /\ MaskIdle /\ CtxIdle
    /\ \E T \in 1..MaxSchedSteps : \E s \in 0..(T + 1) : lr_in = [total_steps |-> T, step |-> s]
    /\ lr_out = NoLrOut

NextLr == LrLambdaCall

SpecLr == InitLr /\ [][NextLr]_vars

(* ------------------------------- claims ------------------------------- *)
IsPrefix(a, b) == Len(a) <= Len(b) /\ SubSeq(b, 1, Len(a)) = a

\* the operations of one training step, in the order they are to happen
StepOrder ==
    <<"next_batch", "idm.label", "wm.label", "backward", "optimizer.step", "update_ema",
      "scheduler.step">>
IsStepOp(s) == s \in Range(StepOrder)
BetweenSteps == pc \in {"for", "done"}
Completed(s) == IF BetweenSteps THEN step ELSE step + (IF s \in Range(ops) THEN 1 ELSE 0)

\* C1: in every training step the batch sampling, the IDM label, the forward
\* model label, the backward pass, the optimizer step, the EMA update and the
\* scheduler step happen in this order, each exactly once, and a step is over
\* before the next begins; update_ema runs once per optimizer step and after
\* it, and the forward model's target of step n is computed after exactly n
\* EMA updates, that is after the update of step n-1 has completed.
C1_StepOrder ==
    LET done == SelectSeq(ops, IsStepOp)
    IN /\ IsPrefix(done, StepOrder)
       /\ (BetweenSteps /\ step > 0) => done = StepOrder
       /\ opt_count = Completed("optimizer.step")
       /\ ema_count = Completed("update_ema")
       /\ ema_count <= opt_count
       /\ "wm.label" \in Range(ops) =>
             target_ema = (IF BetweenSteps THEN step - 1 ELSE step)
       /\ ipc # "idle" => pc = "idm.label"

C1_Witness ==
    /\ pc = "for"
    /\ step = 2
    /\ SelectSeq(ops, IsStepOp) = StepOrder
    /\ target_ema = 1
    /\ ema_count = 2

\* C2: the EMA encoder's parameters, although held by the optimizer, never
\* carry a gradient and are written by nothing but update_ema.
C2_EmaOnlyInterpolated ==
    \A p \in Range(EmaParameters) :
        /\ p \in OptimizerParams
        /\ grad[p] = <<>>
        /\ writer[p] \in {"init", "update_ema"}

C2_Witness ==
    /\ opt_count >= 2
    /\ \A p \in Range(EmaParameters) :
          /\ p \in OptimizerParams
          /\ writer[p] = "update_ema"
          /\ value[p] # InitWeight(p)
    /\ \A p \in Range(EncoderParameters) : writer[p] = "optimizer.step"

\* C3: after update_ema(m), for every (shadow, online) pair the shadow is
\* m * old shadow + (1 - m) * online, and the online parameter is unchanged.
C3_ConvexCombination ==
    ema_count > 0 =>
        \A z \in EmaZip :
            LET new == value[z[1]]
                s == ema_pre[z[1]]
                o == ema_pre[z[2]]
                m == ema_m
            IN /\ new[1] * (m[2] * s[2] * o[2])
                    = (m[1] * s[1] * o[2] + (m[2] - m[1]) * o[1] * s[2]) * new[2]
               /\ value[z[2]] = o

C3_Witness ==
    /\ ema_count > 0
    /\ ema_m = Frac(9, 10)
    /\ \A z \in EmaZip : ema_pre[z[1]] # ema_pre[z[2]] /\ value[z[1]] # ema_pre[z[1]]

\* C4: a returning IDM forward call returns num_eval_tokens actions in
\* evaluation mode and between min_tokens and max_tokens actions, both
\* included, in training mode.
C4_TokenCount ==
    ipc = "returned" =>
        IF ~training["idm"]
        THEN Len(result.la) = idm.num_eval_tokens
        ELSE idm.min_tokens <= Len(result.la) /\ Len(result.la) <= idm.max_tokens

C4_Witness ==
    /\ ipc = "returned"
    /\ training["idm"]
    /\ idm.min_tokens < idm.max_tokens
    /\ Len(result.la) = idm.max_tokens

\* C7: IDM.label, IDM.label_chunked and WorldModel.label each pass the
\* observation at offset -2 as the before image and the one at offset -1 as
\* the after (target) image.
C7_BeforeAfterOffsets ==
    last_call.entry # "none" =>
        /\ last_call.before.t = batch.obs_len - 1
        /\ last_call.after.t = batch.obs_len

\* C8: label_chunked labels every chunk in evaluation mode whatever mode the
\* IDM was in: one context encoding per chunk, without augmentation or patch
\* dropping, num_eval_tokens actions per transition, and the concatenation
\* covers every row in order.
C8_ChunkedInference ==
    /\ \A i \in 1..Len(out_dicts) :
          /\ out_dicts[i].has_la_flat
          /\ out_dicts[i].enc_calls = <<FALSE>>
          /\ Len(out_dicts[i].la) = idm.num_eval_tokens
    /\ ipc # "raised_cat_chunks"
    /\ (last_call.entry = "IDM.label_chunked" /\ ipc = "idle")
          => batch.la_rows = batch.rows /\ Len(batch.la) = idm.num_eval_tokens

\* the output shape the encoder is to return for batch size B
ExpectedShape(cfg, B) ==
    <<B, cfg.depth, (cfg.img_size \div cfg.patch_size) * (cfg.img_size \div cfg.patch_size),
      cfg.embed_dim>>

EncoderWorks ==
    /\ enc_obj.state # "raised"
    /\ enc_fwd.state # "none" =>
          /\ enc_fwd.state = "returned"
          /\ enc_fwd.shape = ExpectedShape(enc_cfg, enc_fwd.B)

ConfigError(cfg) ==
    \/ cfg.embed_dim % 2 # 0
    \/ cfg.img_size % cfg.patch_size # 0
    \/ cfg.embed_dim % cfg.num_heads # 0

\* C6: an odd embedding dimension, an image size the patch size does not
\* divide and a head count that does not divide the embedding dimension are
\* all raised by the constructor: no constructed encoder has such a
\* configuration and no forward pass runs on one.
C6_ConfigErrorsAtConstruction ==
    ConfigError(enc_cfg) =>
        /\ enc_obj.state # "constructed"
        /\ enc_fwd.state = "none"
        /\ enc_obj.state = "raised" => enc_obj.err # NoError

C6_Witness ==
    /\ enc_obj.state = "raised"
    /\ enc_cfg.img_size % enc_cfg.patch_size = 0
    /\ enc_cfg.embed_dim % 4 = 0
    /\ enc_cfg.embed_dim % enc_cfg.num_heads # 0
    /\ enc_obj.err = "embed_dim must be divisible by num_heads"

\* C9: the causal mask of a decode step forbids position i to attend to
\* position j exactly when j > i, so the decoder output at position i does not
\* change when target positions after i change, and every position sees
\* every memory patch.
C9_CausalMask ==
    msk_out.done =>
        LET T == msk_in.T
        IN /\ \A i, j \in 1..T : (msk_out.mask[i][j] = NegInf) <=> (j > i)
           /\ \A i, j \in 1..T : msk_out.bool_mask[i][j] <=> (j > i)
           /\ \A i \in 1..T :
                 (\A j \in 1..i : msk_in.tgt[j] = msk_in.tgt2[j])
                     => msk_out.out[i] = msk_out.out2[i]
           /\ \A i \in 1..T : msk_out.mem_seen[i] = 1..msk_in.P

C9_Witness ==
    /\ msk_out.done
    /\ msk_in.T = 3
    /\ msk_in.layers = 2
    /\ msk_in.P = 2
    /\ msk_in.tgt[1] = msk_in.tgt2[1]
    /\ msk_in.tgt[2] = msk_in.tgt2[2]
    /\ msk_in.tgt[3] # msk_in.tgt2[3]
    /\ msk_out.out[2] = msk_out.out2[2]
    /\ msk_out.out[3] # msk_out.out2[3]

\* the positions of sample b whose 'after' context is not the drop token
KeptPositions(b) ==
    {p \in 1..ctx_in.P : ctx_out.after_ctx[b][p] # DropToken(ctx_in.depth)}

\* position p of sample b holds, at every layer, the encoder output of the
\* 'after' patch cut from position p
HoldsOwnPatch(b, p) ==
    \A d \in 1..ctx_in.depth :
        LET t == ctx_out.after_ctx[b][p][d]
        IN /\ t.kind = "enc"
           /\ t.layer = d
           /\ t.from.img = "after" /\ t.from.b = b /\ t.from.patch = p

\* C10: a training-mode context encoding keeps, per sample, exactly
\* max(1, floor(P * top_pct)) distinct 'after' positions; a kept position holds
\* the encoder output of the patch of that position and every other position
\* holds the one drop token; an evaluation-mode encoding holds no drop token.
C10_KeepMask ==
    ctx_out.done =>
        \A b \in 1..ctx_in.B :
            IF ctx_in.training
            THEN /\ Cardinality(KeptPositions(b))
                      = Max(1, (ctx_in.P * ctx_in.top_pct[1]) \div ctx_in.top_pct[2])
                 /\ \A p \in KeptPositions(b) : HoldsOwnPatch(b, p)
                 /\ \A p \in (1..ctx_in.P) \ KeptPositions(b), d \in 1..ctx_in.depth :
                       ctx_out.after_ctx[b][p][d].kind = "drop"
            ELSE \A p \in 1..ctx_in.P : HoldsOwnPatch(b, p)

C10_Witness ==
    /\ ctx_out.done
    /\ ctx_in.training
    /\ ctx_in.B = 2 /\ ctx_in.P = 3 /\ ctx_in.depth = 2
    /\ ctx_in.top_pct = <<3, 4>>
    /\ ctx_out.idxs = << <<3, 1>>, <<2, 3>> >>
    /\ KeptPositions(1) = {1, 3}
    /\ KeptPositions(2) = {2, 3}
    /\ ctx_out.after_ctx[1][2] = DropToken(2)

\* C11: a training-mode forward call encodes the vision context once in every
\* decode step, each time with training=True (augmentation and a keep-mask
\* drawn in that call), so a call that produced n tokens made exactly n
\* encodings; an evaluation-mode call encodes it exactly once, before the first
\* decode step, with training=False (no augmentation, every patch kept).
C11_ContextEncodings ==
    /\ ipc = "train_loop" => enc_calls = [i \in 1..step_i |-> TRUE]
    /\ ipc = "eval_loop" => enc_calls = <<FALSE>>
    /\ ipc = "returned" =>
          IF result.has_la_flat
          THEN enc_calls = <<FALSE>>
          ELSE /\ Len(result.la) = num_tokens
               /\ enc_calls = [i \in 1..num_tokens |-> TRUE]

C11_Witness ==
    /\ ipc = "returned"
    /\ ~result.has_la_flat
    /\ num_tokens = 2
    /\ Len(result.la) = 2
    /\ enc_calls = <<TRUE, TRUE>>

\* a forward call is in its decode loop or has just returned
InDecode == ipc \in {"eval_loop", "train_loop", "returned"}

\* the largest token count the call's branch can produce
DecodeMax ==
    IF ipc = "eval_loop" \/ (ipc = "returned" /\ result.has_la_flat)
    THEN idm.num_eval_tokens
    ELSE idm.max_tokens

\* The target sequence is the mask token followed by one last-position decoder
\* output per completed step, one action was produced per step, and the call
\* returns exactly when num_tokens actions were produced.
DecodeMachine ==
    InDecode =>
        /\ Len(tgt_so_far) = step_i + 1
        /\ tgt_so_far[1] = MaskToken
        /\ \A k \in 2..Len(tgt_so_far) : tgt_so_far[k] = [kind |-> "decoder_out", pos |-> k - 1]
        /\ Len(out_tokens) = step_i
        /\ \A k \in 1..Len(out_tokens) : out_tokens[k] = [kind |-> "action", pos |-> k]
        /\ step_i <= num_tokens
        /\ num_tokens <= DecodeMax
        /\ ipc = "returned" => step_i = num_tokens /\ result.la = out_tokens

\* C12 as stated: the decode loop's state machine, with the number of elements
\* of the target sequence always within 1..max (max_tokens in training,
\* num_eval_tokens in evaluation).
C12_TargetLengthWithinMax ==
    /\ DecodeMachine
    /\ InDecode => Len(tgt_so_far) \in 1..DecodeMax

\* C12 amended: the decode loop's state machine, with the number of elements of
\* the target sequence always within 1..max+1: the sequence handed to the
\* decoder has 1..max elements and the last step's append makes it max+1.
C12_TargetLengthWithinMaxPlusOne ==
    /\ DecodeMachine
    /\ InDecode => Len(tgt_so_far) \in 1..(DecodeMax + 1)
    /\ (ipc \in {"eval_loop", "train_loop"} /\ step_i < num_tokens)
          => Len(tgt_so_far) \in 1..DecodeMax

C12_Witness ==
    /\ ipc = "returned"
    /\ ~result.has_la_flat
    /\ idm.max_tokens = 2
    /\ num_tokens = 2
    /\ tgt_so_far = <<MaskToken, [kind |-> "decoder_out", pos |-> 1],
                      [kind |-> "decoder_out", pos |-> 2]>>
    /\ Len(result.la) = 2

\* C13: the learning rate at step index s rises linearly from INITIAL_LR at
\* s = 0 towards PEAK_LR while s is below the warmup length
\* int(0.15 * total_steps), equals PEAK_LR at the warmup length, never increases
\* from there to s = total_steps, where it equals FINAL_LR; it is a function of
\* s and total_steps alone.
C13_LrSchedule ==
    (lr_out.done /\ lr_in.step <= lr_in.total_steps) =>
        LET T == lr_in.total_steps
            s == lr_in.step
            w == warmup_steps(T)
        IN /\ lr_out.lr = LambdaLR(s, T)
           /\ s < w => lr_out.lr = FracAdd(<<INITIAL_LR, 1>>,
                                           FracMul(<<PEAK_LR - INITIAL_LR, 1>>, Frac(s, w)))
           /\ s = 0 /\ w > 0 => lr_out.lr = <<INITIAL_LR, 1>>
           /\ s = w => lr_out.lr = <<PEAK_LR, 1>>
           /\ s >= w /\ s < T => FracLeq(LambdaLR(s + 1, T), lr_out.lr)
           /\ s >= w => FracLeq(<<FINAL_LR, 1>>, lr_out.lr) /\ FracLeq(lr_out.lr, <<PEAK_LR, 1>>)
           /\ s = T => lr_out.lr = <<FINAL_LR, 1>>

C13_Witness ==
    /\ lr_out.done
    /\ lr_in = [total_steps |-> 14, step |-> 1]
    /\ warmup_steps(14) = 2
    /\ lr_out.lr = <<1001, 2>>

\* block c (counted from 1) of the context vector of patch p of sample b comes
\* from image img at encoder layer d
BlockIs(b, p, c, img, d) ==
    LET t == ctx_out.src[b][p][c]
    IN /\ t.layer = d
       /\ IF t.kind = "drop"
          THEN img = "after" /\ ctx_in.training
          ELSE t.kind = "enc" /\ t.from.img = img /\ t.from.b = b /\ t.from.patch = p

InTrainStep == pc \in Range(train_step)

\* the index LambdaLR passed to lr_lambda for the rate now in the optimizer; its
\* cosine progress (last_epoch - w) / (total_steps - w) is within [0, 1]
ProgressInUnitInterval ==
    LET w == warmup_steps(total_steps)
    IN last_epoch >= w => /\ 0 <= last_epoch - w
                          /\ last_epoch - w <= total_steps - w

\* C15: a run ends after exactly total_steps + 1 training steps, indices
\* 0..total_steps, each followed by exactly one scheduler step; while training
\* step i runs (its optimizer step included) the schedule index is i, at most
\* total_steps, so the cosine progress an optimizer step uses is within [0, 1].
C15_TerminationAndScheduleIndex ==
    /\ [](InTrainStep => /\ step \in 0..total_steps
                         /\ last_epoch = step
                         /\ opt_count \in {step, step + 1}
                         /\ ProgressInUnitInterval)
    /\ [](pc \in {"for", "scheduler.step", "done"} => opt_count = IF pc = "scheduler.step"
                                                               THEN step + 1 ELSE step)
    /\ [](pc \in {"for", "done"} => last_epoch = step)
    /\ [](pc = "done" => step = total_steps + 1 /\ opt_count = total_steps + 1)
    /\ <>[](pc = "done")

C15_Witness ==
    /\ pc = "done"
    /\ total_steps = 2
    /\ step = 3
    /\ opt_count = 3
    /\ last_epoch = 3

====
